---- MODULE Spec2Model ----
(***************************************************************************)
(* DependencyGraph of src/main.py: the adjacency lists, the node set and   *)
(* the cycle list, populated by add_dependency and by the recursive DFS of *)
(* build_graph_dfs, and read by the queries get_all_dependencies,          *)
(* has_cycles, get_cycles, get_all_nodes, get_load_order and to_dot.       *)
(*                                                                         *)
(* The recursion of dfs() is an explicit stack of frames; one step of the  *)
(* model is the code between two visits of a frame's loop head.  The       *)
(* provider (dependency_reader) is an input: each get_dependencies call    *)
(* answers with a list of packages or fails with DependencyError.          *)
(***************************************************************************)
EXTENDS Integers, Sequences, FiniteSets, TLC

\* Package names in the order of Python's str comparison.
PackageOrder == <<"A", "B", "C", "D">>

Packages == {PackageOrder[i] : i \in 1..Len(PackageOrder)}

\* The packages an unconstrained provider and a client's direct calls range over.
FreePackages == {"A", "B", "C"}

\* Total number of edge-list entries a run with an unconstrained provider creates.
MaxEdges == 2

\* Mutating calls (add_dependency by a client, build_graph_dfs) on one graph.
MaxOps == 2

VARIABLES
    registry,         \* the provider: a fixed table, or unconstrained answers
    graph,            \* self.graph: dict in insertion order, a sequence of [key, deps]
    all_packages,     \* self.all_packages
    cycles,           \* self.cycles
    pc,               \* "idle", or "dfs" while build_graph_dfs runs
    root_package,     \* argument of the running (or last) build_graph_dfs
    visited,          \* local of build_graph_dfs (empty while no build runs)
    recursion_stack,  \* local of build_graph_dfs
    current_path,     \* local of build_graph_dfs
    frames,           \* the active dfs() calls: [package, deps, i], i the next index
    status,           \* how the last build_graph_dfs ended: "none", "returned", "raised"
    calls,            \* the get_dependencies calls of the running build, with the answers
    result,           \* what the last query returned
    nAdds,            \* direct add_dependency calls so far
    nBuilds           \* build_graph_dfs calls so far

vars == <<registry, graph, all_packages, cycles, pc, root_package, visited, recursion_stack,
          current_path, frames, status, calls, result, nAdds, nBuilds>>

store == <<graph, all_packages, cycles>>

build == <<pc, root_package, visited, recursion_stack, current_path, frames, status, calls>>

----------------------------------------------------------------------------
\* Helpers over sequences and the dict.

Range(s) == {s[i] : i \in 1..Len(s)}

Rank(p) == CHOOSE i \in 1..Len(PackageOrder) : PackageOrder[i] = p

DepLists(n) == UNION {[1..k -> FreePackages] : k \in 0..n}

Keys(g) == {g[i].key : i \in 1..Len(g)}

\* g.get(k, [])
Get(g, k) == IF k \in Keys(g) THEN g[CHOOSE i \in 1..Len(g) : g[i].key = k].deps ELSE <<>>

\* g[k].append(d) on a defaultdict(list): a missing key is inserted last.
DictAppend(g, k, d) ==
    IF k \in Keys(g)
    THEN [i \in 1..Len(g) |-> IF g[i].key = k
                              THEN [key |-> k, deps |-> Append(g[i].deps, d)]
                              ELSE g[i]]
    ELSE Append(g, [key |-> k, deps |-> <<d>>])

RECURSIVE SumLen(_, _)
SumLen(s, i) == IF i > Len(s) THEN 0 ELSE Len(s[i].deps) + SumLen(s, i + 1)

EdgeCount(g) == SumLen(g, 1)

RECURSIVE Pending(_, _)
Pending(fs, i) ==
    IF i > Len(fs) THEN 0 ELSE (Len(fs[i].deps) + 1 - fs[i].i) + Pending(fs, i + 1)

\* Edge entries the run may still create.
Budget == MaxEdges - EdgeCount(graph) - Pending(frames, 1)

\* get_dependencies raised DependencyError.
LookupFailure == [ok |-> FALSE, deps |-> <<>>]

Found(deps) == [ok |-> TRUE, deps |-> deps]

\* What get_dependencies(package) may answer: the table's entry, or with an
\* unconstrained provider any list within the budget, or a failure.
Responses(package) ==
    IF registry.fixed
    THEN {registry.table[package]}
    ELSE {Found(d) : d \in DepLists(Budget)} \cup {LookupFailure}

\* The packages calls are made with.
Universe == IF registry.fixed THEN Packages ELSE FreePackages

NoResult == [op |-> "none", arg |-> "", val |-> <<>>]

----------------------------------------------------------------------------
\* Fixture tables, as TestRepositoryReader serves them (a package without a line
\* has no dependencies), each also with the lookups of some packages failing.

Table(a, b, c, d) == [p \in Packages |->
    IF p = "A" THEN a ELSE IF p = "B" THEN b ELSE IF p = "C" THEN c ELSE d]

Diamond == Table(<<"B", "C">>, <<"D">>, <<"D">>, <<>>)

TwoCycle == Table(<<"B">>, <<"A">>, <<>>, <<>>)

ReverseDiamond == Table(<<>>, <<"A">>, <<"A">>, <<"C", "B">>)

DiamondCycle == Table(<<"B", "C">>, <<"D">>, <<"D">>, <<"A">>)

Chord == Table(<<"B", "C">>, <<"C">>, <<"A">>, <<"A">>)

BaseTables == {Diamond, TwoCycle, ReverseDiamond, DiamondCycle, Chord}

Failing(t, F) == [p \in Packages |-> IF p \in F THEN LookupFailure ELSE Found(t[p])]

Registries ==
    {[fixed |-> TRUE, table |-> Failing(t, F)] : t \in BaseTables, F \in SUBSET Packages}
        \cup {[fixed |-> FALSE, table |-> <<>>]}

----------------------------------------------------------------------------
\* __init__
Init ==
    /\ registry \in Registries
    /\ graph = <<>>
    /\ all_packages = {}
    /\ cycles = <<>>
    /\ pc = "idle"
    /\ root_package = ""
    /\ visited = {}
    /\ recursion_stack = {}
    /\ current_path = <<>>
    /\ frames = <<>>
    /\ status = "none"
    /\ calls = <<>>
    /\ result = NoResult
    /\ nAdds = 0
    /\ nBuilds = 0

\* Variant: only the source of the edge becomes a node.
add_dependency_source_only(package, dependency) ==
    /\ graph' = DictAppend(graph, package, dependency)
    /\ all_packages' = all_packages \cup {package}

\* add_dependency(package, dependency): the effect on self.graph, self.all_packages.
add_dependency(package, dependency) ==
    /\ graph' = DictAppend(graph, package, dependency)
    /\ all_packages' = all_packages \cup {package, dependency}

\* A client calls add_dependency directly.
AddDependency(package, dependency) ==
    /\ pc = "idle"
    /\ ~registry.fixed
    /\ nAdds + nBuilds < MaxOps
    /\ EdgeCount(graph) < MaxEdges
    /\ add_dependency(package, dependency)
    /\ nAdds' = nAdds + 1
    /\ result' = NoResult
    /\ UNCHANGED <<registry, cycles, build, nBuilds>>

----------------------------------------------------------------------------
\* build_graph_dfs

\* Variant: no except clause, the DependencyError leaves build_graph_dfs.
UncaughtLookup(fs, package) ==
    /\ frames' = <<>>
    /\ pc' = "idle"
    /\ status' = "raised"

\* except DependencyError: pass -- the failed lookup leaves the new frame with
\* nothing to iterate, and control falls through to the frame's exit.
CaughtLookup(fs, package) ==
    /\ frames' = Append(fs, [package |-> package, deps |-> <<>>, i |-> 1])
    /\ pc' = "dfs"
    /\ status' = "none"

\* Variant: the expanded package is not put into visited.
ExpandUnmarked(fs, vis, stk, path, log, package, resp) ==
    /\ visited' = vis
    /\ recursion_stack' = stk \cup {package}
    /\ current_path' = Append(path, package)
    /\ calls' = Append(log, [pkg |-> package, ok |-> resp.ok, deps |-> resp.deps])
    /\ IF resp.ok
       THEN /\ frames' = Append(fs, [package |-> package, deps |-> resp.deps, i |-> 1])
            /\ pc' = "dfs"
            /\ status' = "none"
       ELSE CaughtLookup(fs, package)

\* dfs(package) for a package that is neither on the stack nor visited: mark it,
\* ask the provider and enter the loop.  fs, vis, stk, path, log are the caller's
\* frames and the locals as they stand at the call.
Expand(fs, vis, stk, path, log, package, resp) ==
    /\ visited' = vis \cup {package}
    /\ recursion_stack' = stk \cup {package}
    /\ current_path' = Append(path, package)
    /\ calls' = Append(log, [pkg |-> package, ok |-> resp.ok, deps |-> resp.deps])
    /\ IF resp.ok
       THEN /\ frames' = Append(fs, [package |-> package, deps |-> resp.deps, i |-> 1])
            /\ pc' = "dfs"
            /\ status' = "none"
       ELSE CaughtLookup(fs, package)

\* build_graph_dfs(root, reader): fresh locals, then dfs(root).
BuildStart(root, resp) ==
    /\ pc = "idle"
    /\ nAdds + nBuilds < MaxOps
    /\ resp \in Responses(root)
    /\ root_package' = root
    /\ Expand(<<>>, {}, {}, <<>>, <<>>, root, resp)
    /\ nBuilds' = nBuilds + 1
    /\ result' = NoResult
    /\ UNCHANGED <<registry, store, nAdds>>

Top == frames[Len(frames)]

\* The top frame with its loop advanced past the current dependency.
Advanced == [frames EXCEPT ![Len(frames)].i = @ + 1]

InLoop == pc = "dfs" /\ frames # <<>> /\ Top.i <= Len(Top.deps)

Dep == Top.deps[Top.i]

\* Variant: the path is not closed with the re-entered package.
CyclePathOpen(path, package) ==
    LET cycle_start == CHOOSE k \in 1..Len(path) : path[k] = package
    IN  SubSeq(path, cycle_start, Len(path))

\* The cycle closed by re-entering package: the active path from package on, closed.
CyclePath(path, package) ==
    LET cycle_start == CHOOSE k \in 1..Len(path) :
                          /\ path[k] = package
                          /\ \A j \in 1..(k - 1) : path[j] # package
    IN  Append(SubSeq(path, cycle_start, Len(path)), package)

\* Variant: the membership test is inverted, so no path is ever stored.
RecordCycleInverted(cs, cycle) == IF cycle \in Range(cs) THEN Append(cs, cycle) ELSE cs

\* if cycle not in self.cycles: self.cycles.append(cycle)
RecordCycle(cs, cycle) == IF cycle \in Range(cs) THEN cs ELSE Append(cs, cycle)

\* Variant: a closed cycle is an error of the build.
StepCycleRaises ==
    /\ InLoop
    /\ Dep \in recursion_stack
    /\ add_dependency(Top.package, Dep)
    /\ cycles' = RecordCycle(cycles, CyclePath(current_path, Dep))
    /\ frames' = <<>>
    /\ pc' = "idle"
    /\ status' = "raised"
    /\ UNCHANGED <<registry, root_package, visited, recursion_stack, current_path,
                   calls, result, nAdds, nBuilds>>

\* Loop body, dep on the recursion stack: add the edge, record the cycle, return.
StepCycle ==
    /\ InLoop
    /\ Dep \in recursion_stack
    /\ add_dependency(Top.package, Dep)
    /\ cycles' = RecordCycle(cycles, CyclePath(current_path, Dep))
    /\ frames' = Advanced
    /\ UNCHANGED <<registry, pc, root_package, visited, recursion_stack, current_path,
                   status, calls, result, nAdds, nBuilds>>

\* Variant: a visited dependency returns before its edge is added.
StepVisitedNoEdge ==
    /\ InLoop
    /\ Dep \notin recursion_stack
    /\ Dep \in visited
    /\ frames' = Advanced
    /\ UNCHANGED <<registry, store, pc, root_package, visited, recursion_stack,
                   current_path, status, calls, result, nAdds, nBuilds>>

\* Loop body, dep visited and off the stack: add the edge, return at once.
StepVisited ==
    /\ InLoop
    /\ Dep \notin recursion_stack
    /\ Dep \in visited
    /\ add_dependency(Top.package, Dep)
    /\ frames' = Advanced
    /\ UNCHANGED <<registry, cycles, pc, root_package, visited, recursion_stack,
                   current_path, status, calls, result, nAdds, nBuilds>>

\* Loop body, dep new: add the edge and expand dep.
StepExpand ==
    /\ InLoop
    /\ Dep \notin recursion_stack
    /\ Dep \notin visited
    /\ add_dependency(Top.package, Dep)
    /\ \E resp \in Responses(Dep) :
           Expand(Advanced, visited, recursion_stack, current_path, calls, Dep, resp)
    /\ UNCHANGED <<registry, cycles, root_package, result, nAdds, nBuilds>>

\* Variant: the exit of dfs pops the path and leaves the package on the stack.
ReturnKeepsStack ==
    /\ pc = "dfs"
    /\ frames # <<>>
    /\ Top.i > Len(Top.deps)
    /\ current_path' = SubSeq(current_path, 1, Len(current_path) - 1)
    /\ frames' = SubSeq(frames, 1, Len(frames) - 1)
    /\ IF Len(frames) = 1
       THEN pc' = "idle" /\ status' = "returned" /\ visited' = {} /\ calls' = <<>>
       ELSE UNCHANGED <<pc, status, visited, calls>>
    /\ UNCHANGED <<registry, store, root_package, recursion_stack, result, nAdds, nBuilds>>

\* Loop exhausted: recursion_stack.remove(package); current_path.pop(); return.
\* The return of dfs(root) ends build_graph_dfs, and its locals with it.
Return ==
    /\ pc = "dfs"
    /\ frames # <<>>
    /\ Top.i > Len(Top.deps)
    /\ recursion_stack' = recursion_stack \ {Top.package}
    /\ current_path' = SubSeq(current_path, 1, Len(current_path) - 1)
    /\ frames' = SubSeq(frames, 1, Len(frames) - 1)
    /\ IF Len(frames) = 1
       THEN pc' = "idle" /\ status' = "returned" /\ visited' = {} /\ calls' = <<>>
       ELSE UNCHANGED <<pc, status, visited, calls>>
    /\ UNCHANGED <<registry, store, root_package, result, nAdds, nBuilds>>

----------------------------------------------------------------------------
\* Queries.

RECURSIVE collect_deps(_, _, _)
RECURSIVE CollectEach(_, _, _, _)

\* collect_deps(pkg) with the closure's visited set passed along and returned.
collect_deps(g, pkg, seen) ==
    IF pkg \in seen THEN seen ELSE CollectEach(g, Get(g, pkg), 1, seen \cup {pkg})

\* for dep in deps[i..]: collect_deps(dep)
CollectEach(g, deps, i, seen) ==
    IF i > Len(deps) THEN seen
    ELSE CollectEach(g, deps, i + 1, collect_deps(g, deps[i], seen))

\* Variant: the closure starts at the package itself.
get_all_dependencies_from_self(g, package) == collect_deps(g, package, {})

get_all_dependencies(g, package) == CollectEach(g, Get(g, package), 1, {})

\* Variant: one recorded cycle does not count.
has_cycles_several(cs) == Len(cs) > 1

has_cycles(cs) == Len(cs) > 0

get_cycles(cs) == cs

get_all_nodes(nodes) == nodes

\* Variant: get_all_nodes() hands out the attribute itself, so the caller's add
\* lands in it.
AddedToAttribute(nodes, x) == nodes \cup {x}

\* self.all_packages after a caller added x to the set get_all_nodes() returned:
\* the returned set is a copy, so the attribute keeps its value.
AfterAddToReturnedNodes(nodes, x) == nodes

RECURSIVE EdgesFrom(_, _, _)
\* for package, deps in self.graph.items(): for dep in deps -- as a sequence.
EdgesFrom(g, i, j) ==
    IF i > Len(g) THEN <<>>
    ELSE IF j > Len(g[i].deps) THEN EdgesFrom(g, i + 1, 1)
    ELSE <<[src |-> g[i].key, dst |-> g[i].deps[j]]>> \o EdgesFrom(g, i, j + 1)

Edges(g) == EdgesFrom(g, 1, 1)

RECURSIVE SetToSeq(_)
\* The elements of a set in one iteration order.
SetToSeq(S) ==
    IF S = {} THEN <<>>
    ELSE LET x == CHOOSE x \in S : TRUE IN <<x>> \o SetToSeq(S \ {x})

RECURSIVE Insert(_, _)
Insert(sorted, x) ==
    IF sorted = <<>> THEN <<x>>
    ELSE IF Rank(x) < Rank(Head(sorted)) THEN <<x>> \o sorted
    ELSE <<Head(sorted)>> \o Insert(Tail(sorted), x)

RECURSIVE SortFrom(_, _, _)
SortFrom(q, i, acc) == IF i > Len(q) THEN acc ELSE SortFrom(q, i + 1, Insert(acc, q[i]))

\* Variant: the queue is popped in arrival order.
UnsortedQueue(q) == q

\* queue.sort()
SortQueue(q) == SortFrom(q, 1, <<>>)

\* Variant: the count is taken at the dependency, in_degree[dep] += 1.
InDegreeOfTarget(g, all_nodes) ==
    [n \in all_nodes \cup Keys(g) |-> Len(SelectSeq(Edges(g), LAMBDA e : e.dst = n))]

\* in_degree after the loops of lines 390-397: one count per entry of a package's own
\* edge list.
InDegree(g, all_nodes) == [n \in all_nodes \cup Keys(g) |-> Len(Get(g, n))]

\* reverse_graph[dep]: the packages that list dep, once per entry, in iteration order.
ReverseGraph(g, dep) ==
    LET es == SelectSeq(Edges(g), LAMBDA e : e.dst = dep)
    IN  [k \in 1..Len(es) |-> es[k].src]

RECURSIVE Relax(_, _, _, _)
\* for dependent in reverse_graph[node][i..]: decrement, queue it when it reaches 0.
Relax(dependents, i, queue, in_degree) ==
    IF i > Len(dependents) THEN [queue |-> queue, in_degree |-> in_degree]
    ELSE LET d == dependents[i]
             deg == [in_degree EXCEPT ![d] = @ - 1]
         IN  Relax(dependents, i + 1, IF deg[d] = 0 THEN Append(queue, d) ELSE queue, deg)

RECURSIVE Kahn(_, _, _, _)
\* while queue: sort, pop the first, emit it, relax its dependents.
Kahn(g, queue, order, in_degree) ==
    IF queue = <<>> THEN order
    ELSE LET q == SortQueue(queue)
             node == Head(q)
             st == Relax(ReverseGraph(g, node), 1, Tail(q), in_degree)
         IN  Kahn(g, st.queue, Append(order, node), st.in_degree)

LoadOrder(kind, order, remaining) == [kind |-> kind, order |-> order, remaining |-> remaining]

\* get_load_order(root_package): "cyclic" and "incomplete" are the two DependencyErrors.
get_load_order(g, nodes, cs, root) ==
    IF has_cycles(cs) THEN LoadOrder("cyclic", <<>>, {})
    ELSE LET all_nodes == get_all_nodes(nodes) \cup {root}
             in_degree == InDegree(g, all_nodes)
             queue == SelectSeq(SetToSeq(all_nodes), LAMBDA n : in_degree[n] = 0)
             order == Kahn(g, queue, <<>>, in_degree)
         IN  IF Len(order) # Cardinality(all_nodes)
             THEN LoadOrder("incomplete", <<>>, all_nodes \ Range(order))
             ELSE LoadOrder("ok", order, {})

Line(kind, a, b) == [kind |-> kind, a |-> a, b |-> b]

\* Variant: only an edge that is a step of a recorded cycle is red.
is_cycle_step(cs, package, dep) ==
    \E k \in 1..Len(cs) : \E i \in 1..(Len(cs[k]) - 1) :
        cs[k][i] = package /\ cs[k][i + 1] = dep

\* The red test of to_dot: some recorded cycle holds both ends.
is_cycle(cs, package, dep) ==
    \E k \in 1..Len(cs) : package \in Range(cs[k]) /\ dep \in Range(cs[k])

EdgeLine(cs, e) ==
    IF is_cycle(cs, e.src, e.dst) THEN Line("cycle_edge", e.src, e.dst)
    ELSE Line("edge", e.src, e.dst)

\* isolated of to_dot: in all_nodes, no key of the dict, in no edge list.
Isolated(g, nodes, root) ==
    ((get_all_nodes(nodes) \cup {root}) \ Keys(g)) \ {e.dst : e \in Range(Edges(g))}

\* Variant: the root is not left out.
StandaloneWithRoot(g, nodes, root) == Isolated(g, nodes, root)

\* The standalone declarations: the isolated nodes other than the root.
Standalone(g, nodes, root) == {n \in Isolated(g, nodes, root) : n # root}

\* to_dot(root_package) as its lines; shown is the order in which the set of
\* isolated nodes is iterated.
to_dot(g, nodes, cs, root, shown) ==
    LET es == Edges(g)
    IN  << Line("text", "digraph dependency_graph {", ""),
           Line("text", "rankdir=TB;", ""),
           Line("text", "node [shape=box, style=rounded];", ""),
           Line("text", "", ""),
           Line("root", root, ""),
           Line("text", "", "") >>
        \o [k \in 1..Len(es) |-> EdgeLine(cs, es[k])]
        \o [k \in 1..Len(shown) |-> Line("node", shown[k], "")]
        \o << Line("text", "}", "") >>

\* The iteration orders of a set.
Orders(S) == {s \in [1..Cardinality(S) -> S] : Range(s) = S}

Answer(op, arg, val) == [op |-> op, arg |-> arg, val |-> val]

Idle == pc = "idle"

HasCycles ==
    /\ Idle
    /\ result' = Answer("has_cycles", "", has_cycles(cycles))
    /\ UNCHANGED <<registry, store, build, nAdds, nBuilds>>

GetCycles ==
    /\ Idle
    /\ result' = Answer("get_cycles", "", get_cycles(cycles))
    /\ UNCHANGED <<registry, store, build, nAdds, nBuilds>>

GetAllNodes ==
    /\ Idle
    /\ result' = Answer("get_all_nodes", "", get_all_nodes(all_packages))
    /\ UNCHANGED <<registry, store, build, nAdds, nBuilds>>

GetAllDependencies(package) ==
    /\ Idle
    /\ result' = Answer("get_all_dependencies", package, get_all_dependencies(graph, package))
    /\ UNCHANGED <<registry, store, build, nAdds, nBuilds>>

GetLoadOrder(root) ==
    /\ Idle
    /\ result' = Answer("get_load_order", root, get_load_order(graph, all_packages, cycles, root))
    /\ all_packages' = IF has_cycles(cycles) THEN all_packages
                       ELSE AfterAddToReturnedNodes(all_packages, root)
    /\ UNCHANGED <<registry, graph, cycles, build, nAdds, nBuilds>>

ToDot(root) ==
    /\ Idle
    /\ \E shown \in Orders(Standalone(graph, all_packages, root)) :
           result' = Answer("to_dot", root, to_dot(graph, all_packages, cycles, root, shown))
    /\ all_packages' = AfterAddToReturnedNodes(all_packages, root)
    /\ UNCHANGED <<registry, graph, cycles, build, nAdds, nBuilds>>

----------------------------------------------------------------------------
Next ==
    \/ \E p \in Universe, d \in Universe : AddDependency(p, d)
    \/ \E r \in Universe : \E resp \in Responses(r) : BuildStart(r, resp)
    \/ StepCycle
    \/ StepVisited
    \/ StepExpand
    \/ Return
    \/ HasCycles
    \/ GetCycles
    \/ GetAllNodes
    \/ \E p \in Universe : GetAllDependencies(p)
    \/ \E r \in Universe : GetLoadOrder(r)
    \/ \E r \in Universe : ToDot(r)

Spec == Init /\ [][Next]_vars

\* The steps of a running build_graph_dfs.
DfsStep == StepCycle \/ StepVisited \/ StepExpand \/ Return

\* build_graph_dfs is a synchronous call: once entered it keeps running.
FairSpec == Spec /\ WF_vars(DfsStep)

----------------------------------------------------------------------------
\* Vocabulary of the properties.

\* The edge relation of the graph.
EdgeSet ==
    UNION {{<<graph[i].key, d>> : d \in Range(graph[i].deps)} : i \in 1..Len(graph)}

RECURSIVE Closure(_, _)
\* R closed under composition through the packages of S.
Closure(R, S) ==
    IF S = {} THEN R
    ELSE LET k == CHOOSE k \in S : TRUE
         IN  Closure(R \cup {<<a, b>> \in Packages \X Packages :
                                <<a, k>> \in R /\ <<k, b>> \in R}, S \ {k})

\* <<a, b>> is in Reachable when a path of one or more edges leads from a to b.
Reachable == Closure(EdgeSet, Packages)

HasDirectedCycle == \E p \in Packages : <<p, p>> \in Reachable

\* Position of package n in the sequence order (0 when absent).
IndexOf(order, n) ==
    IF n \in Range(order) THEN CHOOSE k \in 1..Len(order) : order[k] = n ELSE 0

\* v is an order of exactly all_packages and root, each once, every dependency
\* before its dependents.
IsLoadOrder(v, root) ==
    /\ v.kind = "ok"
    /\ Range(v.order) = all_packages \cup {root}
    /\ Len(v.order) = Cardinality(all_packages \cup {root})
    /\ \A e \in EdgeSet : IndexOf(v.order, e[2]) < IndexOf(v.order, e[1])

\* One build_graph_dfs on a new graph, running or finished, and nothing else.
SingleBuild == nBuilds = 1 /\ nAdds = 0

----------------------------------------------------------------------------
\* C1 as stated: in every state without a recorded cycle, get_load_order(root)
\* returns each element of nodes and the root exactly once, dependencies first.
C1_AnyGraphWithoutRecordedCycle ==
    (result.op = "get_load_order" /\ cycles = <<>>)
        => IsLoadOrder(result.val, result.arg)

\* C1, amended: in every state without a recorded cycle whose edge relation has no
\* directed cycle, get_load_order(root) returns each element of nodes and the root
\* exactly once, every dependency before its dependents.
C1_LoadOrderOfAcyclicGraph ==
    (result.op = "get_load_order" /\ cycles = <<>> /\ ~HasDirectedCycle)
        => IsLoadOrder(result.val, result.arg)

C1_Witness ==
    /\ result.op = "get_load_order"
    /\ result.val.kind = "ok"
    /\ Cardinality(EdgeSet) >= 2
    /\ result.arg \in all_packages

\* C2: get_load_order raises the cyclic-dependency error exactly when the cycle list
\* is not empty, for every root, and then returns no order.
C2_CyclicErrorIffCycles ==
    result.op = "get_load_order"
        => /\ (result.val.kind = "cyclic") <=> (cycles # <<>>)
           /\ result.val.kind = "cyclic" => result.val.order = <<>>

C2_Witness ==
    /\ result.op = "get_load_order"
    /\ result.val.kind = "cyclic"
    /\ result.arg \notin all_packages

\* C3: get_all_dependencies(p) is the set of packages reachable from p by one or
\* more edges: p is in it only when p lies on a directed cycle, and it is empty
\* when p has no outgoing edges or is not in the graph.
C3_AllDependenciesIsReachability ==
    result.op = "get_all_dependencies"
        => /\ result.val = {q \in Packages : <<result.arg, q>> \in Reachable}
           /\ result.arg \in result.val => <<result.arg, result.arg>> \in Reachable
           /\ (\A e \in EdgeSet : e[1] # result.arg) => result.val = {}

C3_Witness ==
    /\ result.op = "get_all_dependencies"
    /\ result.arg \in result.val
    /\ Cardinality(result.val) >= 2

----------------------------------------------------------------------------
\* dfs(root) has run its loop to the end: the graph is what the build leaves.
Finishing == pc = "dfs" /\ Len(frames) = 1 /\ Top.i > Len(Top.deps)

Provider(t) == [fixed |-> TRUE, table |-> Failing(t, {})]

\* One build from root on a new graph, finished, with the fixture table t.
Built(t, root) ==
    /\ registry.fixed
    /\ registry = Provider(t)
    /\ SingleBuild
    /\ root_package = root
    /\ pc = "idle"

CycleWellFormed(c) ==
    /\ Len(c) >= 2
    /\ c[1] = c[Len(c)]
    /\ \A i, j \in 1..(Len(c) - 1) : i # j => c[i] # c[j]
    /\ \A i \in 1..(Len(c) - 1) : <<c[i], c[i + 1]>> \in EdgeSet

CyclesWellFormed == \A i \in 1..Len(cycles) : CycleWellFormed(cycles[i])

\* C5: a step that records a cycle appends the active path from the re-entered
\* dependency to the current node, closed with that dependency; every recorded
\* path has at least two elements, equal ends, no other repetition, and each
\* consecutive pair is an edge (edges are never removed, so this is looked at by the
\* steps that change the cycle list or the graph); for A -> [B], B -> [A] from A the
\* build ends with the list [[A, B, A]].
C5_CyclePathIsClosedActiveSubPath ==
    [][/\ cycles' # cycles =>
             /\ InLoop
             /\ \E k \in 1..Len(current_path) :
                   /\ current_path[k] = Dep
                   /\ Top.package = current_path[Len(current_path)]
                   /\ cycles' = Append(cycles,
                         Append(SubSeq(current_path, k, Len(current_path)), Dep))
       /\ (cycles' # cycles \/ graph' # graph) => CyclesWellFormed'
       /\ (pc = "dfs" /\ Built(TwoCycle, "A")') => cycles' = << <<"A", "B", "A">> >>]_vars

\* A recorded cycle of three packages that does not start at the root.
C5_Witness ==
    /\ SingleBuild
    /\ \E i \in 1..Len(cycles) : Len(cycles[i]) >= 4 /\ cycles[i][1] # root_package

\* C6: a returned load order emits at every position the smallest package, in
\* lexicographic order, among those not yet emitted whose dependencies are all
\* emitted; for A -> [B, C], B -> [D], C -> [D], D -> [] from A it is [D, B, C, A].
C6_CanonicalLoadOrder ==
    /\ (result.op = "get_load_order" /\ result.val.kind = "ok") =>
          \A k \in 1..Len(result.val.order) :
             LET order == result.val.order
                 emitted == {order[j] : j \in 1..(k - 1)}
                 ready == {n \in (all_packages \cup {result.arg}) \ emitted :
                              \A e \in EdgeSet : e[1] = n => e[2] \in emitted}
             IN  /\ order[k] \in ready
                 /\ \A n \in ready : Rank(order[k]) <= Rank(n)
    /\ (Built(Diamond, "A") /\ result.op = "get_load_order" /\ result.arg = "A") =>
          /\ result.val.kind = "ok"
          /\ result.val.order = <<"D", "B", "C", "A">>

C6_Witness ==
    /\ Built(Diamond, "A")
    /\ result.op = "get_load_order"
    /\ result.arg = "A"
    /\ result.val.order = <<"D", "B", "C", "A">>

\* C7: a running build_graph_dfs eventually returns normally, whatever the provider
\* answers over the finite package set (cycles, self-loops, failed lookups).
C7_BuildReturns == (pc = "dfs") ~> (pc = "idle" /\ status = "returned")

\* A build that met two cycles has returned.
C7_Witness ==
    /\ pc = "idle"
    /\ status = "returned"
    /\ Len(cycles) >= 2
    /\ \E i \in 1..Len(cycles) : Len(cycles[i]) = 2

\* C8: a query, whatever its argument and whether it returns or raises, leaves the
\* edges, the node set and the cycle list as they were, and a query repeated with
\* the same argument returns what it returned before.
C8_QueriesLeaveGraphUnchanged ==
    [][(pc = "idle" /\ result'.op # "none") =>
          /\ UNCHANGED <<graph, all_packages, cycles>>
          /\ (result.op = result'.op /\ result.arg = result'.arg)
                => result'.val = result.val]_vars

\* get_load_order returned an order for a root that is not in the graph.
C8_Witness ==
    /\ result.op = "get_load_order"
    /\ result.val.kind = "ok"
    /\ result.arg \notin all_packages
    /\ graph # <<>>

C10_EdgeStatements ==
    result.op = "to_dot" =>
       LET lines == SelectSeq(result.val, LAMBDA l : l.kind \in {"edge", "cycle_edge"})
       IN  /\ Len(lines) = EdgeCount(graph)
           /\ \A i \in 1..Len(graph) : \A j \in 1..Len(graph[i].deps) :
                 LET k == (EdgeCount(graph) - SumLen(graph, i)) + j
                     a == graph[i].key
                     b == graph[i].deps[j]
                 IN  /\ lines[k].a = a
                     /\ lines[k].b = b
                     /\ (lines[k].kind = "cycle_edge")
                           <=> (\E c \in Range(cycles) : a \in Range(c) /\ b \in Range(c))

\* A styled edge that is a step of no recorded cycle, beside an unstyled edge.
C10_Witness ==
    /\ result.op = "to_dot"
    /\ \E k \in 1..Len(result.val) :
          /\ result.val[k].kind = "cycle_edge"
          /\ \A c \in Range(cycles) : \A i \in 1..(Len(c) - 1) :
                ~(c[i] = result.val[k].a /\ c[i + 1] = result.val[k].b)
    /\ \E k \in 1..Len(result.val) : result.val[k].kind = "edge"

----------------------------------------------------------------------------
\* The frames of the packages whose expansion is still running.
Active(p) == {j \in 1..Len(frames) : frames[j].package = p}

\* C11: in a build on a new graph, the edge list of every package whose lookup
\* succeeded holds the dependencies the provider returned, in the provider's order,
\* cycle-closing and already-visited ones included: while the package's loop runs,
\* the list is the part of the answer the loop has passed (the edge is added before
\* dfs(dep) looks at the stack or the visited set), and once it is over, the whole.
C11_EdgeListIsProviderAnswer ==
    SingleBuild =>
       \A k \in 1..Len(calls) :
          calls[k].ok =>
             LET p == calls[k].pkg
             IN  /\ \A j \in Active(p) :
                       /\ frames[j].deps = calls[k].deps
                       /\ Get(graph, p) = SubSeq(frames[j].deps, 1, frames[j].i - 1)
                 /\ Active(p) = {} => Get(graph, p) = calls[k].deps

\* dfs(root) has run its loop after closing a cycle, and some package was listed by
\* two answers or twice by one.
C11_Witness ==
    /\ Finishing
    /\ SingleBuild
    /\ cycles # <<>>
    /\ \E k \in 1..Len(calls) :
          /\ Len(calls[k].deps) = 2
          /\ \/ calls[k].deps[1] = calls[k].deps[2]
             \/ \E j \in 1..Len(calls) :
                   j # k /\ calls[k].deps[2] \in Range(calls[j].deps)

\* C12: in every state reachable by add_dependency and build_graph_dfs, no edge
\* list holds the same package twice (a dependency that is already in the list is
\* not appended again).
C12_NoDuplicateEdges ==
    \A i \in 1..Len(graph) : \A j, k \in 1..Len(graph[i].deps) :
        graph[i].deps[j] = graph[i].deps[k] => j = k

\* C13: in a graph filled by one build_graph_dfs on a new graph, whatever the
\* provider answers (failed lookups, repeated entries), a directed cycle in the edge
\* relation comes with at least one recorded cycle path, from the step that closes
\* it on; so get_load_order on such a graph never ends in its length check.
C13_CycleIsRecorded ==
    SingleBuild =>
       /\ HasDirectedCycle => cycles # <<>>
       /\ result.op = "get_load_order" => result.val.kind # "incomplete"

\* get_load_order(root) on the cyclic graph one build left raised the cyclic error.
C13_Witness ==
    /\ SingleBuild
    /\ HasDirectedCycle
    /\ result.op = "get_load_order"
    /\ result.arg = root_package
    /\ result.val.kind = "cyclic"
    /\ Cardinality(all_packages) >= 3

\* C14: in every state reachable by add_dependency and build_graph_dfs, the node
\* set is exactly the set of packages that are the source or the target of an edge;
\* the root of a build whose lookup returned nothing or failed is not a node.
C14_NodesAreEdgeEnds ==
    all_packages = {e[1] : e \in EdgeSet} \cup {e[2] : e \in EdgeSet}

\* After a client's add_dependency, a build has returned whose root has no
\* dependencies and is not a node.
C14_Witness ==
    /\ pc = "idle"
    /\ status = "returned"
    /\ nAdds = 1
    /\ all_packages # {}
    /\ root_package \notin all_packages

\* C15: at every loop head of a running build_graph_dfs, the recursion stack is the
\* set of the packages of current_path, current_path holds no package twice, begins
\* with the root and lists the packages whose expansion is running, and the stack is
\* inside visited; a package whose expansion has returned, after a failed lookup
\* too, is off the stack and the path and still in visited; and when the build has
\* returned, the stack and the path are empty.
C15_StackIsActivePath ==
    /\ pc = "dfs" =>
          /\ recursion_stack = Range(current_path)
          /\ \A i, j \in 1..Len(current_path) :
                current_path[i] = current_path[j] => i = j
          /\ current_path # <<>>
          /\ current_path[1] = root_package
          /\ recursion_stack \subseteq visited
          /\ Len(current_path) = Len(frames)
          /\ \A j \in 1..Len(frames) : current_path[j] = frames[j].package
          /\ \A k \in 1..Len(calls) :
                /\ calls[k].pkg \in visited
                /\ Active(calls[k].pkg) = {} => calls[k].pkg \notin recursion_stack
    /\ pc = "idle" => (recursion_stack = {} /\ current_path = <<>>)

\* Two expansions are running, and the expansion of a package whose lookup failed
\* has returned.
C15_Witness ==
    /\ pc = "dfs"
    /\ Len(current_path) >= 2
    /\ \E k \in 1..Len(calls) :
          /\ ~calls[k].ok
          /\ calls[k].pkg \in visited
          /\ calls[k].pkg \notin recursion_stack

\* The packages the answered lookups of the running build have listed.
Listed == UNION {Range(calls[k].deps) : k \in 1..Len(calls)}

\* C16: during one build_graph_dfs the provider is asked at most once per package:
\* first for the root, then only for a package an earlier answer listed and that is
\* an edge target; no package is asked for twice, whether it is met again through a
\* cycle-closing edge, another parent or a repeated entry; and when dfs(root) has
\* run its loop, the packages asked for are exactly the root and the targets of the
\* edges the build added (on a new graph: of all edges).
C16_OneLookupPerPackage ==
    pc = "dfs" =>
       /\ calls # <<>>
       /\ calls[1].pkg = root_package
       /\ \A j, k \in 1..Len(calls) : calls[j].pkg = calls[k].pkg => j = k
       /\ \A k \in 2..Len(calls) :
             /\ \E j \in 1..(k - 1) : calls[k].pkg \in Range(calls[j].deps)
             /\ \E e \in EdgeSet : e[2] = calls[k].pkg
       /\ Finishing =>
             /\ {calls[k].pkg : k \in 1..Len(calls)} = {root_package} \cup Listed
             /\ SingleBuild =>
                   {calls[k].pkg : k \in 1..Len(calls)}
                      = {root_package} \cup {e[2] : e \in EdgeSet}

\* dfs(root) has run its loop on a new graph: a cycle was closed, and the build added
\* at least two edges more than it expanded packages besides the root.
C16_Witness ==
    /\ Finishing
    /\ SingleBuild
    /\ cycles # <<>>
    /\ EdgeCount(graph) > Len(calls)

====
